---- MODULE Spec2Model ----
(***************************************************************************)
(* A model of scripts/gitaimsg.py: the commit-message pipeline of main()   *)
(* (two provider attempts, validation/repair, deterministic fallback,      *)
(* scrub, print) and its pure text functions sanitize_blob,                *)
(* validate_or_fallback and fallback_message.                              *)
(*                                                                         *)
(* Text is a sequence of characters; a character is a one-element string,  *)
(* or a name for a character that has no plain spelling:                   *)
(*   "LF" "CR" "TAB" "NUL"   control characters                            *)
(*   "BT"     GRAVE ACCENT, the backtick                                   *)
(*   "U0338"  COMBINING LONG SOLIDUS OVERLAY (2 bytes in UTF-8)            *)
(*   "U02BC"  MODIFIER LETTER APOSTROPHE     (2 bytes)                     *)
(*   "U223C"  TILDE OPERATOR                 (3 bytes)                     *)
(*   "U226E"  NOT LESS-THAN    = NFC of "<" U0338   (3 bytes)              *)
(*   "U2241"  NOT TILDE        = NFC of U223C U0338 (3 bytes)              *)
(*   "U2026"  HORIZONTAL ELLIPSIS            (3 bytes)                     *)
(***************************************************************************)
EXTENDS Integers, Sequences, FiniteSets, TLC

VARIABLES
    pc,         \* the position in main(), or in the sanitizer run
    files,      \* sh("git diff --staged --name-only")
    numstat,    \* sh("git diff --staged --numstat")
    raw_diff,   \* sh("git diff --staged -U0 --no-color")
    max_diff,   \* cfg["max_diff"], the byte budget
    provider,   \* cfg["provider"]
    has_key,    \* whether the provider object holds an API key
    log_ok,     \* whether .git/HOOK_LOG can be appended to
    env_fault,  \* where the configuration makes main() raise, if anywhere
    safe_diff,  \* get_git_context's sanitized diff
    digest,     \* get_git_context's digest of raw_diff
    prompts,    \* the prompts given to provider.generate, in order
    cands,      \* what gen_once returned, in order
    msg,        \* main's msg
    gen_calls,  \* calls of provider.generate
    posts,      \* requests sent by _post_json
    logged,     \* the lines of .git/HOOK_LOG
    stdout,     \* what print() wrote
    text,       \* sanitizer run: the input text
    budget,     \* sanitizer run: the byte budget
    blob,       \* sanitizer run: sanitize_blob(text, budget)
    blob2       \* sanitizer run: sanitize_blob(blob, budget)

vars == <<pc, files, numstat, raw_diff, max_diff, provider, has_key, log_ok,
          env_fault, safe_diff, digest, prompts, cands, msg, gen_calls, posts,
          logged, stdout, text, budget, blob, blob2>>

envVars == <<files, numstat, raw_diff, max_diff, provider, has_key, log_ok, env_fault>>
sanVars == <<text, budget, blob, blob2>>

(***************************************************************************)
(* Generic text operations (Python str semantics).                         *)
(***************************************************************************)
Min(a, b) == IF a < b THEN a ELSE b
Max(a, b) == IF a > b THEN a ELSE b

\* s[:n]
Take(s, n) == IF n >= 0 THEN SubSeq(s, 1, Min(Len(s), n)) ELSE SubSeq(s, 1, Max(0, Len(s) + n))
\* s[n:] for n >= 0
Drop(s, n) == SubSeq(s, Min(Len(s), n) + 1, Len(s))

\* s.startswith(p)
StartsWith(s, p) == Len(p) <= Len(s) /\ SubSeq(s, 1, Len(p)) = p

\* p occurs in s at position i
OccursAt(s, p, i) == i >= 1 /\ i + Len(p) - 1 <= Len(s) /\ SubSeq(s, i, i + Len(p) - 1) = p

\* p in s
Contains(s, p) == \E i \in 1..(Len(s) + 1) : OccursAt(s, p, i)

\* s.find(c) + 1 for a single character c; 0 when absent
IndexOf(s, c) == IF \E i \in 1..Len(s) : s[i] = c
                 THEN CHOOSE i \in 1..Len(s) : s[i] = c /\ \A j \in 1..(i - 1) : s[j] # c
                 ELSE 0

\* characters str.strip() removes and str.splitlines() breaks at
WS == {" ", "TAB", "LF", "CR"}
LineBreaks == {"LF", "CR"}

SetMin(S) == CHOOSE x \in S : \A y \in S : x <= y
SetMax(S) == CHOOSE x \in S : \A y \in S : x >= y

\* s.strip()
Strip(s) ==
    LET keep == {i \in 1..Len(s) : s[i] \notin WS}
    IN IF keep = {} THEN <<>> ELSE SubSeq(s, SetMin(keep), SetMax(keep))

\* s.splitlines(): breaks at LF, CR and CR LF; no empty last line
RECURSIVE SplitFrom(_, _)
SplitFrom(s, i) ==
    LET brk == {k \in i..Len(s) : s[k] \in LineBreaks}
    IN IF i > Len(s) THEN <<>>
       ELSE IF brk = {} THEN <<SubSeq(s, i, Len(s))>>
       ELSE LET k == SetMin(brk)
                n == IF s[k] = "CR" /\ k < Len(s) /\ s[k + 1] = "LF" THEN k + 2 ELSE k + 1
            IN <<SubSeq(s, i, k - 1)>> \o SplitFrom(s, n)

SplitLines(s) == SplitFrom(s, 1)

\* "\n".join(lines)
RECURSIVE JoinLF(_)
JoinLF(lines) ==
    IF lines = <<>> THEN <<>>
    ELSE IF Len(lines) = 1 THEN lines[1]
    ELSE lines[1] \o <<"LF">> \o JoinLF(Tail(lines))

\* [l for l in lines if keep(l)]
RECURSIVE NonBlank(_)
NonBlank(lines) ==
    IF lines = <<>> THEN <<>>
    ELSE IF Strip(Head(lines)) # <<>> THEN <<Head(lines)>> \o NonBlank(Tail(lines))
    ELSE NonBlank(Tail(lines))

\* s.replace(old, new): one pass, left to right, non-overlapping
RECURSIVE Replace(_, _, _)
Replace(s, old, new) ==
    LET at == {i \in 1..Len(s) : OccursAt(s, old, i)}
    IN IF at = {} THEN s
       ELSE LET k == SetMin(at)
            IN SubSeq(s, 1, k - 1) \o new \o Replace(Drop(s, k + Len(old) - 1), old, new)

\* str.lower() on ASCII letters
Upper == <<"A","B","C","D","E","F","G","H","I","J","K","L","M",
           "N","O","P","Q","R","S","T","U","V","W","X","Y","Z">>
Lower == <<"a","b","c","d","e","f","g","h","i","j","k","l","m",
           "n","o","p","q","r","s","t","u","v","w","x","y","z">>
LowerChar(c) == IF \E i \in 1..Len(Upper) : Upper[i] = c
                THEN Lower[CHOOSE i \in 1..Len(Upper) : Upper[i] = c]
                ELSE c
ToLower(s) == [i \in 1..Len(s) |-> LowerChar(s[i])]

\* n repetitions of the character c
Rep(c, n) == [i \in 1..n |-> c]

(***************************************************************************)
(* Validation: ERROR_PREFIXES, CC_SUBJECT, validate_or_fallback.           *)
(***************************************************************************)
ERROR_PREFIXES ==
    { <<"e","r","r","o","r",":">>,
      <<"u","n","e","x","p","e","c","t","e","d"," ","t","o","k","e","n">>,
      <<"s","y","n","t","a","x","e","r","r","o","r">>,
      <<"u","n","c","a","u","g","h","t">>,
      <<"t","r","a","c","e","b","a","c","k">>,
      <<"r","e","f","e","r","e","n","c","e","e","r","r","o","r">>,
      <<"t","y","p","e","e","r","r","o","r">> }

\* the type alternation of CC_SUBJECT
CC_TYPES ==
    { <<"f","e","a","t">>, <<"f","i","x">>, <<"c","h","o","r","e">>,
      <<"d","o","c","s">>, <<"r","e","f","a","c","t","o","r">>,
      <<"t","e","s","t">>, <<"b","u","i","l","d">>, <<"s","t","y","l","e">>,
      <<"p","e","r","f">> }

\* the bound of the summary repetition .{1,72} in CC_SUBJECT
SUMMARY_MAX == 72
\* the subject width of the repair path, and the cut of its type token
REPAIR_WIDTH == 72
TYPE_MAX == 50
\* lines kept by lines[:6], and a cut one line short
KEEP_LINES_Short == 6 - 1
KEEP_LINES == 6

\* ": .{1,72}$" matched against r: "." is any character but LF, "$" is the
\* end of the text or the position before a final LF
SummaryMatch(r) ==
    /\ StartsWith(r, <<":", " ">>)
    /\ LET s == Drop(r, 2)
           body == IF s # <<>> /\ s[Len(s)] = "LF" /\ Len(s) >= 2 /\ s[Len(s) - 1] # "LF"
                      /\ ~ (\E i \in 1..Len(s) - 1 : s[i] = "LF")
                   THEN SubSeq(s, 1, Len(s) - 1) ELSE s
       IN /\ Len(body) >= 1
          /\ Len(body) <= SUMMARY_MAX
          /\ \A i \in 1..Len(body) : body[i] # "LF"

\* "(\([^)]+\))?" then the summary, matched against r (the text after the type)
ScopeMatch(r) ==
    IF r # <<>> /\ r[1] = "("
    THEN LET close == IndexOf(r, ")")
         IN close >= 3 /\ SummaryMatch(Drop(r, close))
    ELSE SummaryMatch(r)

\* CC_SUBJECT.match(first), re.I
CC_SUBJECT(first) ==
    \E t \in CC_TYPES : StartsWith(ToLower(first), t) /\ ScopeMatch(Drop(first, Len(t)))

\* a repair that would forget to cut the summary
Repair_Uncut(first) ==
    LET k == IndexOf(first, ":")
    IN Take(SubSeq(first, 1, k - 1), TYPE_MAX) \o <<":", " ">> \o Strip(Drop(first, k))

\* the repair of a first line that holds a colon: first.split(":", 1)
Repair(first) ==
    LET k == IndexOf(first, ":")
        t == SubSeq(first, 1, k - 1)
        rest == Drop(first, k)
    IN Take(t, TYPE_MAX) \o <<":", " ">> \o Take(Strip(rest), Max(0, REPAIR_WIDTH - Len(t) - 2))

validate_or_fallback(m, fallback) ==
    IF m = <<>> THEN fallback
    ELSE LET first == Strip(SplitLines(m)[1])
             low == ToLower(first)
         IN IF \E p \in ERROR_PREFIXES : StartsWith(low, p) THEN fallback
            ELSE IF ~ CC_SUBJECT(first)
                 THEN (IF IndexOf(first, ":") # 0 THEN Repair(first) ELSE fallback)
                 ELSE LET lines == <<first>> \o NonBlank(Tail(SplitLines(m)))
                      IN Strip(JoinLF(Take(lines, KEEP_LINES)))

(***************************************************************************)
(* The final scrub of main().                                              *)
(***************************************************************************)
JUNK == << <<"BT","BT","BT">>, <<"~","~","~">>,
           <<"{","c","o","d","e","}">>, <<"<","/","c","o","d","e",">">> >>

RECURSIVE ScrubFrom(_, _)
ScrubFrom(m, i) == IF i > Len(JUNK) THEN m ELSE ScrubFrom(Replace(m, JUNK[i], <<>>), i + 1)

Scrub(m) == ScrubFrom(m, 1)

(***************************************************************************)
(* fallback_message: a message computed from the staged numstat alone.     *)
(***************************************************************************)
\* the characters of the model in code point order (sorted() compares by it)
CODE_ORDER ==
    <<"NUL", "TAB", "LF", "CR", " ", "!", "(", ")", "+", ",", "-", ".", "/",
      "0", "1", "2", "3", "4", "5", "6", "7", "8", "9", ":", "<", "=", ">">>
    \o Upper \o <<"[", "]", "_", "BT">> \o Lower \o
    <<"{", "}", "~", "U02BC", "U0338", "U2026", "U223C", "U2241", "U2260",
      "U226E", "U226F">>

CodePoint(c) == CHOOSE i \in 1..Len(CODE_ORDER) : CODE_ORDER[i] = c

\* a < b for two texts, as Python compares str
RECURSIVE TextLess(_, _)
TextLess(a, b) ==
    IF b = <<>> THEN FALSE
    ELSE IF a = <<>> THEN TRUE
    ELSE IF Head(a) = Head(b) THEN TextLess(Tail(a), Tail(b))
    ELSE CodePoint(Head(a)) < CodePoint(Head(b))

\* sorted(S) for a set of texts
RECURSIVE Sorted(_)
Sorted(S) ==
    IF S = {} THEN <<>>
    ELSE LET m == CHOOSE x \in S : \A y \in S : x = y \/ TextLess(x, y)
         IN <<m>> \o Sorted(S \ {m})

Digits == <<"0", "1", "2", "3", "4", "5", "6", "7", "8", "9">>
DigitSet == {Digits[i] : i \in 1..Len(Digits)}
DigitValue(c) == (CHOOSE i \in 1..Len(Digits) : Digits[i] = c) - 1

\* str(n) for n >= 0
RECURSIVE IntToText(_)
IntToText(n) == IF n < 10 THEN <<Digits[n + 1]>> ELSE IntToText(n \div 10) \o <<Digits[(n % 10) + 1]>>

\* int(s) accepts s: surrounding whitespace, an optional "+", then digits
IntOk(s) ==
    LET u == Strip(s)
        d == IF u # <<>> /\ Head(u) = "+" THEN Tail(u) ELSE u
    IN d # <<>> /\ \A i \in 1..Len(d) : d[i] \in DigitSet

RECURSIVE DigitsValue(_)
DigitsValue(d) == IF d = <<>> THEN 0 ELSE DigitsValue(SubSeq(d, 1, Len(d) - 1)) * 10 + DigitValue(d[Len(d)])

IntOf(s) ==
    LET u == Strip(s)
    IN DigitsValue(IF Head(u) = "+" THEN Tail(u) ELSE u)

\* (x or "0").replace("-", "0")
CountText(x) == Replace(IF x = <<>> THEN <<"0">> ELSE x, <<"-">>, <<"0">>)

\* l.split("\t", 2): up to three fields
SplitTab2(l) ==
    LET k1 == IndexOf(l, "TAB")
    IN IF k1 = 0 THEN <<l>>
       ELSE LET r == Drop(l, k1)
                k2 == IndexOf(r, "TAB")
            IN IF k2 = 0 THEN <<SubSeq(l, 1, k1 - 1), r>>
               ELSE <<SubSeq(l, 1, k1 - 1), SubSeq(r, 1, k2 - 1), Drop(r, k2)>>

\* [l for l in ns.splitlines() if "\t" in l]
RECURSIVE TabLines(_)
TabLines(ls) ==
    IF ls = <<>> THEN <<>>
    ELSE IF IndexOf(Head(ls), "TAB") # 0 THEN <<Head(ls)>> \o TabLines(Tail(ls))
    ELSE TabLines(Tail(ls))

RECURSIVE SumField(_, _)
SumField(ls, k) ==
    IF ls = <<>> THEN 0 ELSE IntOf(CountText(SplitTab2(Head(ls))[k])) + SumField(Tail(ls), k)

\* f.split("/", 1)[0] of every path that holds a "/"
Scopes(ls) ==
    { SubSeq(SplitTab2(ls[i])[3], 1, IndexOf(SplitTab2(ls[i])[3], "/") - 1) :
        i \in { j \in 1..Len(ls) : IndexOf(SplitTab2(ls[j])[3], "/") # 0 } }

\* ",".join(xs)
RECURSIVE JoinComma(_)
JoinComma(xs) ==
    IF xs = <<>> THEN <<>>
    ELSE IF Len(xs) = 1 THEN xs[1]
    ELSE xs[1] \o <<",">> \o JoinComma(Tail(xs))

\* how many scopes the subject names
SCOPE_MAX == 2

CHORE == <<"c","h","o","r","e">>
FALLBACK_LITERAL == CHORE \o <<":"," ","u","p","d","a","t","e"," ","f","i","l","e","s">>

\* whether the try block raises: an IndexError (a line with one TAB) or a
\* ValueError (a count int() rejects)
FallbackRaises(ns) ==
    LET lines == TabLines(SplitLines(ns))
    IN \E i \in 1..Len(lines) :
          \/ Len(SplitTab2(lines[i])) < 3
          \/ ~ IntOk(CountText(SplitTab2(lines[i])[1]))
          \/ ~ IntOk(CountText(SplitTab2(lines[i])[2]))

\* what the try block returns when it does not raise
FallbackText(ns) ==
    LET lines == TabLines(SplitLines(ns))
        scopes == Take(Sorted(Scopes(lines)), SCOPE_MAX)
        scope == IF scopes # <<>> THEN <<"(">> \o JoinComma(scopes) \o <<")">> ELSE <<>>
    IN CHORE \o scope \o <<":"," ","u","p","d","a","t","e"," ">>
       \o IntToText(Len(lines)) \o <<" ","f","i","l","e","s"," ","(","+">>
       \o IntToText(SumField(lines, 1)) \o <<" ","-">>
       \o IntToText(SumField(lines, 2)) \o <<")">>

\* a slip that would leave the except clause without a message
fallback_message_NoLiteral(ns) == IF FallbackRaises(ns) THEN <<>> ELSE FallbackText(ns)

\* ns is what sh("git diff --staged --numstat") returned
fallback_message(ns) == IF FallbackRaises(ns) THEN FALLBACK_LITERAL ELSE FallbackText(ns)

(***************************************************************************)
(* sanitize_blob: the diff made prompt-safe and clamped by UTF-8 bytes.    *)
(***************************************************************************)
\* the UTF-8 length of one character
Width(c) == IF c \in {"U0338", "U02BC"} THEN 2
            ELSE IF c \in {"U2026", "U223C", "U2241", "U2260", "U226E", "U226F"} THEN 3
            ELSE 1

\* len(s.encode("utf-8"))
ByteLen(s) == Len(s) + Cardinality({i \in 1..Len(s) : Width(s[i]) >= 2})
                     + Cardinality({i \in 1..Len(s) : Width(s[i]) >= 3})

\* text.encode("utf-8"): byte k of character c is <<c, k>>
RECURSIVE EncodeRange(_, _, _)
EncodeRange(s, lo, hi) ==
    IF lo > hi THEN <<>>
    ELSE IF lo = hi THEN [k \in 1..Width(s[lo]) |-> <<s[lo], k>>]
    ELSE EncodeRange(s, lo, (lo + hi) \div 2) \o EncodeRange(s, (lo + hi) \div 2 + 1, hi)

Encode(s) == EncodeRange(s, 1, Len(s))

\* b.decode("utf-8", errors="ignore"): the bytes that form no whole
\* character are dropped
Decode(b) ==
    LET Whole(p) == /\ b[p][2] = 1
                    /\ p + Width(b[p][1]) - 1 <= Len(b)
                    /\ \A k \in 1..Width(b[p][1]) : b[p + k - 1] = <<b[p][1], k>>
        starts == SelectSeq([p \in 1..Len(b) |-> p], Whole)
    IN [j \in 1..Len(starts) |-> b[starts[j]][1]]

\* unicodedata.normalize("NFC", s) on the model's characters: the only
\* combining mark is U0338, which composes with the starter before it
Composite(c) == CASE c = "<" -> "U226E" [] c = ">" -> "U226F" [] c = "=" -> "U2260"
                  [] c = "U223C" -> "U2241" [] OTHER -> c

RECURSIVE NFC(_)
NFC(s) ==
    LET at == {i \in 1..(Len(s) - 1) : s[i + 1] = "U0338" /\ Composite(s[i]) # s[i]}
    IN IF at = {} THEN s
       ELSE LET k == SetMin(at)
            IN SubSeq(s, 1, k - 1) \o <<Composite(s[k])>> \o NFC(Drop(s, k + 1))

DIFF_OPEN == <<"<","D","I","F","F",">","LF","<","!","[","C","D","A","T","A","[","LF">>
DIFF_CLOSE == <<"LF","]","]",">","LF","<","/","D","I","F","F",">">>
TRUNCATED == <<"LF","U2026"," ","[","t","r","u","n","c","a","t","e","d","]">>

\* NULs stripped, newlines and Unicode normalized, fences replaced
Prepare(t) ==
    LET t1 == Replace(t, <<"NUL">>, <<>>)
        t2 == Replace(Replace(t1, <<"CR","LF">>, <<"LF">>), <<"CR">>, <<"LF">>)
        t3 == NFC(t2)
    IN Replace(Replace(t3, <<"BT","BT","BT">>, <<"U02BC","U02BC","U02BC">>),
               <<"~","~","~">>, <<"U223C","U223C","U223C">>)

\* a clamp that counts characters, as a budget in characters would
Clamp_ByChars(t, byte_budget) ==
    IF Len(t) > byte_budget THEN Take(t, byte_budget) \o TRUNCATED ELSE t

\* the strict byte clamp
Clamp(t, byte_budget) ==
    LET b == Encode(t)
    IN IF Len(b) > byte_budget
       THEN Decode(Take(b, byte_budget)) \o TRUNCATED
       ELSE Decode(b)

\* a wrapper that would leave an already wrapped block alone
Wrap_Once(t) == IF StartsWith(t, DIFF_OPEN) THEN t ELSE DIFF_OPEN \o t \o DIFF_CLOSE

\* the opaque block
Wrap(t) == DIFF_OPEN \o t \o DIFF_CLOSE

sanitize_blob(t, byte_budget) ==
    IF t = <<>> THEN <<>> ELSE Wrap(Clamp(Prepare(t), byte_budget))

(***************************************************************************)
(* Prompt, log and provider.                                               *)
(***************************************************************************)
DIFF_OMITTED == <<"<","D","I","F","F"," ","o","m","i","t","t","e","d","/",">">>

\* build_prompt: the user message embeds the fields verbatim
build_prompt(fl, ns, safe_diff_block) == [files |-> fl, numstat |-> ns, diff |-> safe_diff_block]

\* hashlib.sha256(raw_diff).hexdigest()[:12], kept abstract
Digest(d) == <<"sha256", d>>

Line(kind, arg) == [kind |-> kind, arg |-> arg]

\* log(msg): a best-effort append, a failed write is swallowed
log(lines, ok, entry) == IF ok THEN Append(lines, entry) ELSE lines

\* a _post_json that would send the request again when the first failed
PostRequests_Again(resp) == IF resp.kind = "no_json" THEN 2 ELSE 1

\* requests one _post_json call sends: urlopen is called once, whatever
\* the outcome
PostRequests(resp) == 1

\* Provider.generate for the three variants, given what the network gives
\* back: a reply text, nothing parseable (HTTP error, timeout, bad JSON),
\* a JSON error object, or JSON of another shape than the variant reads
generate(prov, key, resp) ==
    IF prov \in {"openai", "gemini"} /\ ~ key
    THEN [posts |-> 0, out |-> <<>>, raised |-> FALSE,
          logs |-> IF prov = "gemini" THEN <<Line("gemini: missing key", <<>>)>> ELSE <<>>]
    ELSE CASE resp.kind = "no_json" ->
                [posts |-> PostRequests(resp), out |-> <<>>, raised |-> FALSE,
                 logs |-> <<Line("bad JSON", <<>>)>>]
           [] resp.kind = "api_error" ->
                [posts |-> PostRequests(resp), out |-> <<>>, raised |-> FALSE,
                 logs |-> IF prov = "gemini" THEN <<Line("gemini API error", <<>>)>> ELSE <<>>]
           [] resp.kind = "malformed" ->
                [posts |-> PostRequests(resp), out |-> <<>>, raised |-> TRUE, logs |-> <<>>]
           [] resp.kind = "reply" ->
                [posts |-> PostRequests(resp), out |-> Strip(resp.body), raised |-> FALSE,
                 logs |-> <<>>]

\* gen_once(p): the text of one attempt, "" when generate raised
gen_once(prov, key, resp) ==
    LET g == generate(prov, key, resp)
    IN [g EXCEPT !.out = IF g.raised THEN <<>> ELSE Strip(g.out),
                 !.logs = IF g.raised THEN g.logs \o <<Line("provider exception", <<>>)>>
                          ELSE g.logs]

RECURSIVE LogAll(_, _, _)
LogAll(lines, ok, entries) ==
    IF entries = <<>> THEN lines ELSE LogAll(log(lines, ok, Head(entries)), ok, Tail(entries))

(***************************************************************************)
(* The inputs of a run: what git, the configuration and the provider give. *)
(***************************************************************************)
\* lengths of the long type token and the long directory name of the inputs
LongType == 60
LongDir == 60
\* how far around SUMMARY_MAX the summaries of the replies reach
FillSpan == 1

FEAT == <<"f","e","a","t",":"," ">>

REPLIES ==
    { <<"f","e","a","t","(","a","u","t","h",")",":"," ","a","d","d"," ","t","o","k","e","n"," ","r","e","f","r","e","s","h","LF","-"," ","h","a","n","d","l","e","s"," ","e","x","p","i","r","y","LF","-"," ","a","d","d","s"," ","t","e","s","t","s">>,
      <<"A","d","d","e","d"," ","s","o","m","e"," ","s","t","u","f","f">>,
      <<"o","o","p","s",":"," ","f","i","x","e","d"," ","t","h","e"," ","t","h","i","n","g">>,
      <<>>,
      <<"E","r","r","o","r",":"," ","b","o","o","m">>,
      <<"f","i","x",":"," ","a","LF","LF","b","o","d","y">>,
      <<"f","e","a","t",":"," ","BT","BT","~","~","~","BT">>,
      <<"d","o","c","s",":"," ","x"," ","BT","BT","BT","y">>,
      <<" ","F","i","x","(","u","i",")",":"," ","x"," ","CR","LF","-"," ","y","LF">>,
      <<"f","i","x",":"," ","a","LF","1","LF","2","LF","3","LF","4","LF","5","LF","6">>,
      <<"BT","BT","BT",":">>,
      <<"{","c","o","{","c","o","d","e","}","d","e","}",":"," ","x">>,
      <<"t","e","s","t","(","a",")","(","b",")",":"," ","x">>,
      <<"p","e","r","f",":","x">>,
      Rep("t", LongType) \o <<":">> \o Rep("y", 30),
      Rep("t", TYPE_MAX + 1) \o <<":", " ", "z">> }
    \cup { FEAT \o Rep("x", n) : n \in (SUMMARY_MAX - FillSpan)..(SUMMARY_MAX + FillSpan) }

RESPONSES ==
    { [kind |-> "reply", body |-> r] : r \in REPLIES }
    \cup { [kind |-> k, body |-> <<>>] : k \in {"no_json", "api_error", "malformed"} }

NUMSTAT_INPUTS ==
    { <<>>,
      <<"1","TAB","2","TAB","s","r","c","/","a",".","p","y">>,
      <<"1","TAB","2","TAB","s","r","c","/","a","LF","-","TAB","-","TAB","i","m","g","/","b","LF","3","TAB","0","TAB","R","E","A","D","M","E">>,
      <<"x","TAB","y">>,
      <<"1","0","TAB","0","TAB","~","~","~","/","f">>,
      <<"2","TAB","1","TAB">> \o Rep("d", LongDir) \o <<"/","f">> }

FILES_INPUTS == { <<>>, <<"s","r","c","/","a">> }

DIFF_INPUTS == { [d |-> <<>>, b |-> 4], [d |-> <<"a","BT","BT","BT","b">>, b |-> 4] }

PROVIDERS == { [name |-> "ollama", key |-> TRUE],
               [name |-> "openai", key |-> TRUE], [name |-> "openai", key |-> FALSE],
               [name |-> "gemini", key |-> TRUE], [name |-> "gemini", key |-> FALSE] }

(***************************************************************************)
(* main(): one action per step.                                            *)
(***************************************************************************)
Init ==
    /\ pc = "start"
    /\ files \in FILES_INPUTS
    /\ numstat \in NUMSTAT_INPUTS
    /\ \E di \in DIFF_INPUTS : raw_diff = di.d /\ max_diff = di.b
    /\ \E p \in PROVIDERS : provider = p.name /\ has_key = p.key
    /\ log_ok \in BOOLEAN
    /\ env_fault \in {"none", "load_config", "build_provider"}
    /\ safe_diff = <<>>
    /\ digest = <<>>
    /\ prompts = <<>>
    /\ cands = <<>>
    /\ msg = <<>>
    /\ gen_calls = 0
    /\ posts = 0
    /\ logged = <<>>
    /\ stdout = <<>>
    /\ text = <<>>
    /\ budget = 0
    /\ blob = <<>>
    /\ blob2 = <<>>

\* a main without its except clause: the exception leaves it
Fatal_Uncaught ==
    /\ logged' = logged
    /\ pc' = "raised"

\* the except clause of main: two log lines, then return
Fatal ==
    /\ logged' = LogAll(logged, log_ok, <<Line("fatal", <<>>), Line("traceback", <<>>)>>)
    /\ pc' = "done"

\* where main goes after the first validation
AfterAttempt1(m) == IF m = <<>> THEN "retry" ELSE "scrub"

\* a start that would not look at the staged files
Start_Unchecked ==
    /\ pc = "start"
    /\ pc' = "load_config"
    /\ UNCHANGED <<envVars, sanVars, safe_diff, digest, prompts, cands, msg, gen_calls,
                   posts, stdout, logged>>

Start ==
    /\ pc = "start"
    /\ IF Strip(files) = <<>>
       THEN /\ logged' = log(logged, log_ok, Line("no staged files", <<>>))
            /\ pc' = "done"
       ELSE /\ pc' = "load_config"
            /\ UNCHANGED logged
    /\ UNCHANGED <<envVars, sanVars, safe_diff, digest, prompts, cands, msg, gen_calls,
                   posts, stdout>>

LoadConfig ==
    /\ pc = "load_config"
    /\ IF env_fault = "load_config" THEN Fatal
       ELSE pc' = "get_git_context" /\ UNCHANGED logged
    /\ UNCHANGED <<envVars, sanVars, safe_diff, digest, prompts, cands, msg, gen_calls,
                   posts, stdout>>

GetGitContext ==
    /\ pc = "get_git_context"
    /\ safe_diff' = sanitize_blob(raw_diff, max_diff)
    /\ digest' = Digest(raw_diff)
    /\ pc' = "build_provider"
    /\ UNCHANGED <<envVars, sanVars, prompts, cands, msg, gen_calls, posts, logged, stdout>>

BuildProvider ==
    /\ pc = "build_provider"
    /\ IF env_fault = "build_provider" THEN Fatal
       ELSE pc' = "attempt1" /\ UNCHANGED logged
    /\ UNCHANGED <<envVars, sanVars, safe_diff, digest, prompts, cands, msg, gen_calls,
                   posts, stdout>>

\* msg = gen_once(p)
Generate(p, next) ==
    \E resp \in RESPONSES :
        LET g == gen_once(provider, has_key, resp)
        IN /\ prompts' = Append(prompts, p)
           /\ gen_calls' = gen_calls + 1
           /\ posts' = posts + g.posts
           /\ logged' = LogAll(logged, log_ok, g.logs)
           /\ cands' = Append(cands, g.out)
           /\ msg' = g.out
           /\ pc' = next
           /\ UNCHANGED <<envVars, sanVars, safe_diff, digest, stdout>>

Attempt1 ==
    /\ pc = "attempt1"
    /\ Generate(build_prompt(files, numstat, safe_diff), "validate1")

Validate1 ==
    /\ pc = "validate1"
    /\ msg' = validate_or_fallback(msg, <<>>)
    /\ pc' = AfterAttempt1(msg')
    /\ UNCHANGED <<envVars, sanVars, safe_diff, digest, prompts, cands, gen_calls, posts,
                   logged, stdout>>

\* a retry that would not record the digest
Retry_Unlogged ==
    /\ pc = "retry"
    /\ pc' = "attempt2"
    /\ UNCHANGED <<envVars, sanVars, safe_diff, digest, prompts, cands, msg, gen_calls,
                   posts, stdout, logged>>

Retry ==
    /\ pc = "retry"
    /\ logged' = log(logged, log_ok, Line("retry without diff", digest))
    /\ pc' = "attempt2"
    /\ UNCHANGED <<envVars, sanVars, safe_diff, digest, prompts, cands, msg, gen_calls,
                   posts, stdout>>

Attempt2 ==
    /\ pc = "attempt2"
    /\ Generate(build_prompt(files, numstat, DIFF_OMITTED), "validate2")

Validate2 ==
    /\ pc = "validate2"
    /\ msg' = validate_or_fallback(msg, fallback_message(numstat))
    /\ pc' = "scrub"
    /\ UNCHANGED <<envVars, sanVars, safe_diff, digest, prompts, cands, gen_calls, posts,
                   logged, stdout>>

FinalScrub ==
    /\ pc = "scrub"
    /\ msg' = Scrub(msg)
    /\ pc' = "print"
    /\ UNCHANGED <<envVars, sanVars, safe_diff, digest, prompts, cands, gen_calls, posts,
                   logged, stdout>>

Emit ==
    /\ pc = "print"
    /\ stdout' = Append(stdout, msg)
    /\ pc' = "done"
    /\ UNCHANGED <<envVars, sanVars, safe_diff, digest, prompts, cands, msg, gen_calls,
                   posts, logged>>

Next ==
    \/ Start
    \/ LoadConfig
    \/ GetGitContext
    \/ BuildProvider
    \/ Attempt1
    \/ Validate1
    \/ Retry
    \/ Attempt2
    \/ Validate2
    \/ FinalScrub
    \/ Emit

Spec == Init /\ [][Next]_vars

(***************************************************************************)
(* The sanitizer on its own: every short text under every small budget,    *)
(* sanitized and sanitized again.                                          *)
(***************************************************************************)
MaxDiffLen == 3
MaxBudget == 9
\* a budget that a whole sanitized block fits in
BigBudget == 40

DIFF_ALPHABET == {"<", "BT", "~", "CR", "LF", "NUL", "U0338"}

TEXTS ==
    UNION { [1..n -> DIFF_ALPHABET] : n \in 0..MaxDiffLen }
    \cup { <<"~","~","~","U0338">>, <<"BT","BT","BT","<">>, <<"<","BT","BT","BT","BT","<">>,
           <<"~","~","CR","LF","~","NUL","~","~">> }

BUDGETS == (0..MaxBudget) \cup {BigBudget}

InitSan ==
    /\ pc = "san_start"
    /\ text \in TEXTS
    /\ budget \in BUDGETS
    /\ blob = <<>>
    /\ blob2 = <<>>
    /\ files = <<>>
    /\ numstat = <<>>
    /\ raw_diff = <<>>
    /\ max_diff = 0
    /\ provider = "ollama"
    /\ has_key = TRUE
    /\ log_ok = TRUE
    /\ env_fault = "none"
    /\ safe_diff = <<>>
    /\ digest = <<>>
    /\ prompts = <<>>
    /\ cands = <<>>
    /\ msg = <<>>
    /\ gen_calls = 0
    /\ posts = 0
    /\ logged = <<>>
    /\ stdout = <<>>

pipeVars == <<envVars, safe_diff, digest, prompts, cands, msg, gen_calls, posts, logged, stdout>>

Sanitize ==
    /\ pc = "san_start"
    /\ blob' = sanitize_blob(text, budget)
    /\ pc' = "san_once"
    /\ UNCHANGED <<pipeVars, text, budget, blob2>>

Resanitize ==
    /\ pc = "san_once"
    /\ blob2' = sanitize_blob(blob, budget)
    /\ pc' = "san_twice"
    /\ UNCHANGED <<pipeVars, text, budget, blob>>

NextSan ==
    \/ Sanitize
    \/ Resanitize

SpecSan == InitSan /\ [][NextSan]_vars

(***************************************************************************)
(* Properties.                                                             *)
(***************************************************************************)
\* the candidate the last validation read
LastCand == cands[Len(cands)]

\* the run printed and returned
Printed == pc = "done" /\ stdout # <<>>

\* the retry line that records the digest
RetryLine == Line("retry without diff", digest)

HasJunk(m) == \E j \in 1..Len(JUNK) : Contains(m, JUNK[j])

\* C1: provider.generate is called at most twice per run, first with the
\* full-diff prompt and then, exactly when the first validation (empty
\* fallback) returned "", once more with the diff-omitted prompt; one call
\* sends at most one request, so a failed request is never sent again.
C1_AtMostTwoCalls ==
    /\ gen_calls <= 2
    /\ Len(prompts) = gen_calls
    /\ Len(cands) = gen_calls
    /\ posts <= gen_calls
    /\ gen_calls >= 1 => prompts[1] = build_prompt(files, numstat, safe_diff)
    /\ gen_calls = 2 => prompts[2] = build_prompt(files, numstat, DIFF_OMITTED)
    /\ pc = "validate2" => validate_or_fallback(cands[1], <<>>) = <<>>
    /\ pc = "scrub" => (gen_calls = 2 <=> validate_or_fallback(cands[1], <<>>) = <<>>)
    /\ pc \in {"validate1", "retry", "attempt2"} => gen_calls = 1
    /\ pc = "validate2" => gen_calls = 2
    /\ (pc \in {"scrub", "print"} \/ Printed) => gen_calls >= 1

C1_Witness ==
    /\ Printed
    /\ gen_calls = 2
    /\ posts = 2
    /\ logged # <<>>
    /\ cands[2] # <<>>

\* C2: standard output is written exactly once when staged files exist and
\* nothing raised, and not at all when there are no staged files or main
\* raised; a silent run ends by returning from main (the exception does
\* not leave it), and without staged files no provider call is made.
C2_OutputOnceOrSilent ==
    /\ Len(stdout) <= 1
    /\ pc = "done" => (Len(stdout) = 1 <=> (Strip(files) # <<>> /\ env_fault = "none"))
    /\ Strip(files) = <<>> => (pc \in {"start", "done"} /\ gen_calls = 0 /\ posts = 0)
    /\ env_fault = "load_config" => pc \in {"start", "load_config", "done"}
    /\ env_fault = "build_provider" =>
          pc \in {"start", "load_config", "get_git_context", "build_provider", "done"}
    /\ pc # "raised"

C2_Witness ==
    /\ pc = "done"
    /\ Strip(files) # <<>>
    /\ env_fault = "build_provider"
    /\ stdout = <<>>
    /\ gen_calls = 0

\* C3: the message that reaches print is never empty: the second
\* validation, whose fallback is fallback_message's text, returns a
\* non-empty text for every candidate, and fallback_message is non-empty for
\* every numstat, the empty one included.
C3_NeverEmpty ==
    /\ pc \in {"start", "validate2"} => fallback_message(numstat) # <<>>
    /\ (pc = "scrub" /\ gen_calls = 2) => msg # <<>>
    /\ pc = "print" => msg # <<>>
    /\ \A i \in 1..Len(stdout) : stdout[i] # <<>>

C3_Witness ==
    /\ Printed
    /\ gen_calls = 2
    /\ cands[2] = <<>>
    /\ numstat = <<>>
    /\ stdout[1] # <<>>

\* C4: the first line of every printed message is at most 72 characters
\* long, whether the message was accepted by CC_SUBJECT, repaired or made
\* by fallback_message.
C4_FirstLineWithin72 ==
    \A i \in 1..Len(stdout) : stdout[i] # <<>> => Len(SplitLines(stdout[i])[1]) <= 72

\* C5 as stated: a candidate whose first line matches CC_SUBJECT and that
\* has at most five lines after the subject (a blank line between subject
\* and body included) comes back unchanged, and so does the printed text.
Accepted(c) == c # <<>> /\ CC_SUBJECT(SplitLines(c)[1])

C5_Unchanged ==
    /\ (pc = "scrub" /\ Accepted(LastCand) /\ Len(SplitLines(LastCand)) <= 6)
          => msg = LastCand
    /\ (Printed /\ Accepted(LastCand) /\ Len(SplitLines(LastCand)) <= 6)
          => stdout[1] = LastCand

\* a candidate that has no blank line, breaks lines with LF only and has no
\* whitespace at the end of its first line
PlainLines(c) ==
    /\ \A i \in 1..Len(c) : c[i] # "CR"
    /\ \A i \in 1..Len(SplitLines(c)) : Strip(SplitLines(c)[i]) # <<>>
    /\ Strip(SplitLines(c)[1]) = SplitLines(c)[1]

\* C5, amended: for a candidate whose first line matches CC_SUBJECT the
\* validator returns the first line followed by the first five non-blank
\* lines after it, joined by LF: blank lines are dropped.  A candidate with
\* at most five lines after the subject, no blank line, LF line breaks and
\* no whitespace at the end of its first line comes back unchanged, and the
\* printed text equals it when it holds none of the four scrub tokens.
C5_BlankLinesDropped ==
    /\ (pc = "scrub" /\ Accepted(LastCand)) =>
          LET in == SplitLines(LastCand)
              out == SplitLines(msg)
              body == SelectSeq(Tail(in), LAMBDA l : Strip(l) # <<>>)
          IN /\ Len(out) = Min(6, 1 + Len(body))
             /\ out[1] = Strip(in[1])
             /\ \A i \in 2..Len(out) : Strip(out[i]) = Strip(body[i - 1])
             /\ ((PlainLines(LastCand) /\ Len(in) <= 6) => msg = LastCand)
    /\ (Printed /\ Accepted(LastCand) /\ PlainLines(LastCand)
          /\ Len(SplitLines(LastCand)) <= 6 /\ ~ HasJunk(LastCand))
          => stdout[1] = LastCand

C5_Witness ==
    /\ Printed
    /\ gen_calls = 1
    /\ cands[1] = <<"f","i","x",":"," ","a","LF","LF","b","o","d","y">>
    /\ stdout[1] = <<"f","i","x",":"," ","a","LF","b","o","d","y">>

\* C6: after the scrub the printed text holds none of the four tokens,
\* also when removing one token joins the characters of another.
C6_NoJunkPrinted == \A i \in 1..Len(stdout) : ~ HasJunk(stdout[i])

\* C9 as stated: when both candidates are rejected (empty, an error-prefix
\* first line, or a first line without a colon) the printed text is
\* fallback_message's text and the log holds the line with the digest.
Rejected(c) ==
    \/ c = <<>>
    \/ \E p \in ERROR_PREFIXES : StartsWith(ToLower(Strip(SplitLines(c)[1])), p)
    \/ IndexOf(Strip(SplitLines(c)[1]), ":") = 0

BothRejected == Len(cands) = 2 /\ Rejected(cands[1]) /\ Rejected(cands[2])

C9_FallbackPrintedAndLogged ==
    (Printed /\ BothRejected) =>
        /\ stdout = <<fallback_message(numstat)>>
        /\ \E i \in 1..Len(logged) : logged[i] = RetryLine

\* C9, amended: when both candidates are rejected the printed text is
\* fallback_message's text after the scrub, equal to it when it holds none
\* of the four tokens (a staged directory name can bring one in); and
\* unless the best-effort log write fails, the log holds the line with the
\* digest, written after the first rejection and before the second call.
C9_ScrubbedFallbackAndBestEffortLog ==
    /\ (Printed /\ BothRejected) =>
          /\ stdout = <<Scrub(fallback_message(numstat))>>
          /\ (~ HasJunk(fallback_message(numstat)) => stdout = <<fallback_message(numstat)>>)
    /\ pc \in {"start", "load_config", "get_git_context", "build_provider",
               "attempt1", "validate1", "retry"} =>
          \A i \in 1..Len(logged) : logged[i].kind # "retry without diff"
    /\ (pc = "attempt2" /\ log_ok) =>
          gen_calls = 1 /\ logged # <<>> /\ logged[Len(logged)] = RetryLine
    /\ (gen_calls = 2 /\ log_ok) => \E i \in 1..Len(logged) : logged[i] = RetryLine
    /\ ~ log_ok => logged = <<>>

C9_Witness ==
    /\ Printed
    /\ cands = << <<>>, <<>> >>
    /\ log_ok
    /\ numstat = <<"1","TAB","2","TAB","s","r","c","/","a","LF","-","TAB","-","TAB","i","m","g","/","b","LF","3","TAB","0","TAB","R","E","A","D","M","E">>
    /\ stdout = <<fallback_message(numstat)>>
    /\ logged[Len(logged)] = RetryLine

\* C10: a non-empty candidate whose first line has no error prefix, does
\* not match CC_SUBJECT and holds a colon comes back, whatever the
\* fallback, as one line: the text before the first colon cut to 50
\* characters, ": ", and the text after the colon cut so that the line has
\* at most 72 characters; on attempt 1 it goes to the scrub and no second
\* provider call is made.
Repairable(c) ==
    /\ c # <<>>
    /\ LET first == Strip(SplitLines(c)[1])
       IN /\ ~ \E p \in ERROR_PREFIXES : StartsWith(ToLower(first), p)
          /\ ~ CC_SUBJECT(first)
          /\ IndexOf(first, ":") # 0

C10_ColonRepair ==
    /\ (pc = "scrub" /\ Repairable(LastCand)) =>
          LET first == Strip(SplitLines(LastCand)[1])
              k == IndexOf(first, ":")
              t == SubSeq(first, 1, k - 1)
              rest == Strip(Drop(first, k))
              head == Take(t, 50) \o <<":", " ">>
              tail == Drop(msg, Len(head))
          IN /\ StartsWith(msg, head)
             /\ StartsWith(rest, tail)
             /\ Len(msg) <= 72
             /\ (Len(t) <= 50 => (tail = rest \/ Len(msg) = 72))
             /\ Len(SplitLines(msg)) = 1
    /\ (pc = "scrub" /\ Repairable(cands[1])) => gen_calls = 1
    /\ pc \in {"retry", "attempt2"} => ~ Repairable(cands[1])

C10_Witness ==
    /\ Printed
    /\ gen_calls = 1
    /\ posts = 1
    /\ cands[1] = FEAT \o Rep("x", SUMMARY_MAX + 1)
    /\ stdout[1] = FEAT \o Rep("x", 66)

\* the text between the sentinels of a sanitized block, without the marker
Payload(b) ==
    LET inner == SubSeq(b, Len(DIFF_OPEN) + 1, Len(b) - Len(DIFF_CLOSE))
    IN IF Len(inner) >= Len(TRUNCATED)
          /\ SubSeq(inner, Len(inner) - Len(TRUNCATED) + 1, Len(inner)) = TRUNCATED
       THEN SubSeq(inner, 1, Len(inner) - Len(TRUNCATED))
       ELSE inner

Wrapped(b) ==
    /\ Len(b) >= Len(DIFF_OPEN) + Len(DIFF_CLOSE)
    /\ StartsWith(b, DIFF_OPEN)
    /\ SubSeq(b, Len(b) - Len(DIFF_CLOSE) + 1, Len(b)) = DIFF_CLOSE

\* C7: for every budget B >= 0 and every text D the UTF-8 length of
\* sanitize_blob(D, B), less the sentinels and the truncation marker, is at
\* most B, also when the fence replacement enlarges the text and when the
\* cut falls inside a character.
C7_WithinByteBudget ==
    /\ pc \in {"san_once", "san_twice"} =>
          /\ (text = <<>> <=> blob = <<>>)
          /\ (blob # <<>> => Wrapped(blob) /\ ByteLen(Payload(blob)) <= budget)
          /\ ByteLen(blob) - ByteLen(DIFF_OPEN) - ByteLen(DIFF_CLOSE) - ByteLen(TRUNCATED) <= budget
    /\ pc = "san_twice" =>
          (blob2 # <<>> => Wrapped(blob2) /\ ByteLen(Payload(blob2)) <= budget)

C7_Witness ==
    /\ pc = "san_once"
    /\ text = <<"BT","BT","BT","<">>
    /\ budget = 3
    /\ blob = DIFF_OPEN \o <<"U02BC">> \o TRUNCATED \o DIFF_CLOSE

====
